---------------------------- MODULE Spec2Model ----------------------------
(***************************************************************************)
(* Model of the stock-prediction pipeline of src/src/models/               *)
(* stock_pipeline.py (TechnicalIndicators, FeatureEngineer,                *)
(* StockPredictor) and of the /train and /predict endpoints of             *)
(* src/src/api/main.py that drive the process-wide predictor.              *)
(* Around it: the RateLimiter and MetricsCollector of                      *)
(* src/src/api/monitoring.py, the token and role checks of                 *)
(* src/src/api/auth.py with the admin endpoints of src/src/api_main.py,    *)
(* and the ModelRegistry of src/models/registry.py.                        *)
(*                                                                         *)
(* Numbers: the code computes in IEEE doubles.  The model computes in      *)
(* fixed point: a real v is the integer v * SCALE, products and quotients  *)
(* are rescaled and floored.  Prices and volumes are small so that every   *)
(* intermediate value fits TLC's integers.                                 *)
(***************************************************************************)
EXTENDS Integers, Sequences, FiniteSets, TLC

\* Fixed-point resolution (three decimal digits).
SCALE == 10 * 10 * 10

\* ------------------------------------------------------------- bounds
\* Longest bar series handed to predict or to the training path.
MaxBars == 2
\* Number of train calls (direct or through /train) in one behaviour.
MaxTrainCalls == 2
\* Longest price series handed to an indicator.
MaxLen == 4
\* Largest period handed to an indicator.
MaxPeriod == 3

\* Longest bar history whose prefixes create_features is run on: past the
\* longest warm-up (MACD_SLOW).
MaxHistory == 27

\* Most requests the metrics collector records.
MaxRequests == 3

\* Most register_model calls made on the registry.
MaxModels == 2

\* The clock stops at MaxTime seconds.
MaxTime == 80

\* RateLimiter(requests_per_minute=...): 2 in the tests, 100 in api_main.
requests_per_minute == 2

\* -------------------------------------------------- program constants
RSI_PERIOD == 14
MACD_FAST == 12
MACD_SLOW == 26
MACD_SIGNAL == 9
BB_PERIOD == 20
BB_STD_DEV == 2
VOL_PERIOD == 20
SMA_PERIOD == 20
RSI_NEUTRAL == 50
RS_SENTINEL == 100
SMALL_SAMPLE == 50
WINDOW == 60

\* 0.02, the volatility fallback (line 108).
VOL_FALLBACK == (2 * SCALE) \div 100
\* 1e-8, the guard added to Low in HL_Ratio (line 173): below the
\* fixed-point resolution, so it is 0 here.
HL_EPSILON == SCALE \div 100000000

\* ------------------------------------------------ fixed-point helpers
\* The non-finite doubles: integers outside the range of every finite
\* value of the model.
Inf == 2 ^ 30
NaN == Inf + 1
IsFinite(x) == x > -Inf /\ x < Inf

FMul(a, b) == (a * b) \div SCALE

\* a / b on numpy floats, a and b finite: a zero denominator gives an
\* infinity, or NaN for 0 / 0 (a RuntimeWarning, not an exception).
FDiv(a, b) ==
    IF b # 0 THEN (a * SCALE) \div b
    ELSE IF a = 0 THEN NaN
    ELSE IF a > 0 THEN Inf ELSE -Inf

Max(a, b) == IF a >= b THEN a ELSE b
Min(a, b) == IF a <= b THEN a ELSE b

RECURSIVE SeqSum(_)
SeqSum(s) == IF Len(s) = 0 THEN 0 ELSE s[1] + SeqSum(Tail(s))

\* np.mean of an array of finite values; NaN for the empty array.
Mean(s) == IF Len(s) = 0 THEN NaN ELSE SeqSum(s) \div Len(s)

\* Floor of the square root of a natural number, by bisection.
RECURSIVE ISqrtIn(_, _, _)
ISqrtIn(x, lo, hi) ==
    IF lo >= hi THEN lo
    ELSE LET mid == (lo + hi + 1) \div 2
         IN  IF mid * mid <= x THEN ISqrtIn(x, mid, hi)
                               ELSE ISqrtIn(x, lo, mid - 1)

ISqrt(x) == ISqrtIn(x, 0, Min(x, 46340))

\* sqrt of a fixed-point value: sqrt(a / SCALE) * SCALE = sqrt(a * SCALE).
FSqrt(a) == ISqrt(a * SCALE)

\* np.std (population standard deviation) of an array of finite values.
StdFinite(s, m) == FSqrt(Mean([i \in 1..Len(s) |-> FMul(s[i] - m, s[i] - m)]))

\* np.std: NaN for the empty array and for an array holding a non-finite
\* value (its mean is non-finite, and so is every deviation from it).
Std(s) ==
    IF Len(s) = 0 \/ \E i \in 1..Len(s) : ~IsFinite(s[i]) THEN NaN
    ELSE StdFinite(s, Mean(s))

\* Python's s[a:b] for 0 <= a, with b clamped to the length.
PySlice(s, a, b) == SubSeq(s, a + 1, Min(b, Len(s)))

\* np.diff: s[1:] - s[:-1].
Diff(s) == [i \in 1..(IF Len(s) = 0 THEN 0 ELSE Len(s) - 1) |-> s[i + 1] - s[i]]

\* np.full(n, v)
Full(n, v) == [i \in 1..n |-> v]

\* ------------------------------------------------ TechnicalIndicators
\* The loop of rsi (lines 42-49): i runs over period..n-1 (0-based);
\* gains[i-1] of the code is gains[i] here (1-based).
RECURSIVE RsiLoop(_, _, _, _, _, _, _, _)
RsiLoop(i, n, period, gains, losses, ag, al, acc) ==
    IF i >= n THEN acc
    ELSE LET avg_gain == IF i > period
                         THEN (ag * (period - 1) + gains[i]) \div period
                         ELSE ag
             avg_loss == IF i > period
                         THEN (al * (period - 1) + losses[i]) \div period
                         ELSE al
             rs == IF avg_loss # 0 THEN FDiv(avg_gain, avg_loss)
                                   ELSE RS_SENTINEL * SCALE
             r == 100 * SCALE - FDiv(100 * SCALE, SCALE + rs)
         IN  RsiLoop(i + 1, n, period, gains, losses, avg_gain, avg_loss,
                     Append(acc, r))

\* The result array of rsi (lines 51-53).
RsiArray(n, period, rs_values) ==
    [i \in 1..n |-> IF i <= period THEN RSI_NEUTRAL * SCALE
                                   ELSE rs_values[i - period]]

\* Variant of rsi that keeps the losses negative.
rsi_signed_losses(prices, period) ==
    IF Len(prices) < period THEN Full(Len(prices), RSI_NEUTRAL * SCALE)
    ELSE RsiArray(Len(prices), period,
                  RsiLoop(period, Len(prices), period,
                          [i \in 1..Len(prices) - 1 |->
                              Max(prices[i + 1] - prices[i], 0)],
                          [i \in 1..Len(prices) - 1 |->
                              Min(prices[i + 1] - prices[i], 0)],
                          0, 0 - SCALE, <<>>))

\* Variant of rsi whose neutral prefix is one element short.
rsi_short_prefix(prices, period) ==
    IF Len(prices) < period THEN Full(Len(prices), RSI_NEUTRAL * SCALE)
    ELSE [i \in 1..Len(prices) |-> IF i < period THEN RSI_NEUTRAL * SCALE ELSE 0]

rsi(prices, period) ==
    LET n == Len(prices) IN
    IF n < period THEN Full(n, RSI_NEUTRAL * SCALE)
    ELSE LET deltas == Diff(prices)
             gains  == [i \in 1..Len(deltas) |->
                           IF deltas[i] > 0 THEN deltas[i] ELSE 0]
             losses == [i \in 1..Len(deltas) |->
                           IF deltas[i] < 0 THEN -deltas[i] ELSE 0]
             rs_values == RsiLoop(period, n, period, gains, losses,
                                  Mean(PySlice(gains, 0, period)),
                                  Mean(PySlice(losses, 0, period)), <<>>)
         IN  RsiArray(n, period, rs_values)

\* _ema reads prices[0]: it raises IndexError on an empty array.
emaRaises(prices) == Len(prices) = 0

RECURSIVE EmaLoop(_, _, _, _)
EmaLoop(i, prices, multiplier, acc) ==
    IF i > Len(prices) THEN acc
    ELSE EmaLoop(i + 1, prices, multiplier,
                 Append(acc, FMul(prices[i], multiplier)
                             + FMul(acc[i - 1], SCALE - multiplier)))

\* _ema of a non-empty array.
ema(prices, period) ==
    EmaLoop(2, prices, (2 * SCALE) \div (period + 1), <<prices[1]>>)

\* macd of a non-empty array: <<macd_line, signal_line, histogram>>.
macd(prices, fast, slow, signal) ==
    LET ema_fast == ema(prices, fast)
        ema_slow == ema(prices, slow)
        macd_line == [i \in 1..Len(prices) |-> ema_fast[i] - ema_slow[i]]
        signal_line == ema(macd_line, signal)
        histogram == [i \in 1..Len(prices) |-> macd_line[i] - signal_line[i]]
    IN  <<macd_line, signal_line, histogram>>

\* _sma: mean of prices[max(0, i-period+1) : i+1] for 0-based i.
\* Variant of sma whose window is centred: it reads one price ahead.
sma_centred(prices, period) ==
    [i \in 1..Len(prices) |->
        Mean(PySlice(prices, Max(0, i - period + 1), Min(i + 1, Len(prices))))]

sma(prices, period) ==
    [k \in 1..Len(prices) |->
        Mean(PySlice(prices, Max(0, (k - 1) - period + 1), k))]

\* Variant of bollinger_bands with the two outer bands exchanged.
bollinger_bands_swapped(prices, period, std_dev) ==
    <<[k \in 1..Len(prices) |->
          sma(prices, period)[k]
            - FMul(Std(PySlice(prices, Max(0, (k - 1) - period + 1), k)),
                   std_dev * SCALE)],
      sma(prices, period),
      [k \in 1..Len(prices) |->
          sma(prices, period)[k]
            + FMul(Std(PySlice(prices, Max(0, (k - 1) - period + 1), k)),
                   std_dev * SCALE)]>>

\* bollinger_bands: <<upper, sma, lower>>.
bollinger_bands(prices, period, std_dev) ==
    LET mid == sma(prices, period)
        std == [k \in 1..Len(prices) |->
                   Std(PySlice(prices, Max(0, (k - 1) - period + 1), k))]
        upper == [k \in 1..Len(prices) |-> mid[k] + FMul(std[k], std_dev * SCALE)]
        lower == [k \in 1..Len(prices) |-> mid[k] - FMul(std[k], std_dev * SCALE)]
    IN  <<upper, mid, lower>>

\* volatility: returns = diff(prices) / prices[:-1]; index i >= period
\* (0-based) holds std(returns[i-period:i]).
volatility(prices, period) ==
    LET d == Diff(prices)
        returns == [i \in 1..Len(d) |-> FDiv(d[i], prices[i])]
    IN  [k \in 1..Len(prices) |->
            IF k - 1 >= period
            THEN Std(PySlice(returns, (k - 1) - period, k - 1))
            ELSE VOL_FALLBACK]


\* ---------------------------------------------------------- DataFrame
\* A pandas DataFrame: its row count, its column names in order, and the
\* array of each column.
DataFrame(n, names, v) == [nrows |-> n, columns |-> names, val |-> v]

Range(s) == {s[i] : i \in 1..Len(s)}

HasColumn(df, name) == name \in Range(df.columns)

\* features[name] = arr: overwrite the column, or append a new one.
SetCol(df, name, arr) ==
    [df EXCEPT !.columns = IF HasColumn(df, name) THEN @ ELSE Append(@, name),
               !.val = [c \in Range(df.columns) \cup {name} |->
                           IF c = name THEN arr ELSE df.val[c]]]

\* df[names] for a list of names all present in df.
Select(df, names) ==
    DataFrame(df.nrows, names, [c \in Range(names) |-> df.val[c]])

\* Row i of a frame, in column order.
Row(df, i) == [k \in 1..Len(df.columns) |-> df.val[df.columns[k]][i]]

\* df.iloc[0:0]
NoRows(df) ==
    DataFrame(0, df.columns, [c \in Range(df.columns) |-> <<>>])

\* df without one column.
DropColumn(df, name) ==
    DataFrame(df.nrows,
              SelectSeq(df.columns, LAMBDA c : c # name),
              [c \in Range(df.columns) \ {name} |-> df.val[c]])

EmptyFrame == DataFrame(0, <<>>, <<>>)

\* ------------------------------------------------------------- errors
NoError == [type |-> "none", msg |-> ""]
Raise(t, m) == [type |-> t, msg |-> m]

\* ---------------------------------------------------- FeatureEngineer
\* Lines 160-163: the three arrays of macd become three columns.
SetMacd(df, m) ==
    SetCol(SetCol(SetCol(df, "MACD", m[1]), "MACD_Signal", m[2]),
           "MACD_Histogram", m[3])

\* Lines 165-168: the three bands become three columns.
SetBands(df, bb) ==
    SetCol(SetCol(SetCol(df, "BB_Upper", bb[1]), "BB_Middle", bb[2]),
           "BB_Lower", bb[3])

\* h / 1e-8 for a finite h: finite, and beyond every other value of the
\* model; kept as the largest finite magnitude.
Huge == 2 ^ 29
OverEpsilon(h) == IF h = 0 THEN 0 ELSE IF h > 0 THEN Huge ELSE -Huge

\* Line 173: high / (low + 1e-8).  On the model's grid low + 1e-8 is never
\* zero: a zero low divides by 1e-8 itself.
hl_ratio(high, low) ==
    [i \in 1..Len(high) |->
        IF low[i] # 0 THEN FDiv(high[i], low[i] + HL_EPSILON)
                      ELSE OverEpsilon(high[i])]

\* create_features: [err, df].  Reading a missing OHLCV column raises
\* KeyError (lines 152-155); macd -> _ema raises IndexError on zero rows.
create_features(ohlcv_data) ==
    IF \E c \in {"Close", "High", "Low", "Volume"} : ~HasColumn(ohlcv_data, c)
    THEN [err |-> Raise("KeyError", "column"), df |-> EmptyFrame]
    ELSE IF emaRaises(ohlcv_data.val["Close"])
    THEN [err |-> Raise("IndexError", "index 0 is out of bounds"),
          df |-> EmptyFrame]
    ELSE
    LET close  == ohlcv_data.val["Close"]
        high   == ohlcv_data.val["High"]
        low    == ohlcv_data.val["Low"]
        volume == ohlcv_data.val["Volume"]
        f1 == SetCol(ohlcv_data, "RSI_14", rsi(close, RSI_PERIOD))
        f2 == SetMacd(f1, macd(close, MACD_FAST, MACD_SLOW, MACD_SIGNAL))
        f3 == SetBands(f2, bollinger_bands(close, BB_PERIOD, BB_STD_DEV))
        f4 == SetCol(f3, "Volatility", volatility(close, VOL_PERIOD))
        f5 == SetCol(f4, "HL_Ratio", hl_ratio(high, low))
        f6 == SetCol(f5, "Volume_SMA_20", sma(volume, SMA_PERIOD))
        f7 == SetCol(f6, "Price_SMA_20", sma(close, SMA_PERIOD))
    IN  [err |-> NoError, df |-> f7]

\* ------------------------------------------------------------- inputs
\* Close price of the i-th bar of the price history the series are cut
\* from: 3, 2, 1, 3, 2, 1, ... (it falls and rises).
ClosePrice(i) == 1 + ((2 * i) % 3)

\* One OHLCV bar around close price c (all fields positive, Low <= Close
\* <= High), in fixed point.
Bar(c) == [Open   |-> c * SCALE,
           High   |-> (c + 1) * SCALE,
           Low    |-> c * SCALE - SCALE \div 2,
           Close  |-> c * SCALE,
           Volume |-> (c + 8) * SCALE]

\* The bar series: the first n bars of the history, n = 0..MaxBars.
BarSeries == {[i \in 1..n |-> ClosePrice(i)] : n \in 0..MaxBars}

\* Series around the sample size below which train warns (line 231).
SampleSizes == {1, 2, SMALL_SAMPLE - 1, SMALL_SAMPLE, SMALL_SAMPLE + 1}

SampleSeries == {[i \in 1..n |-> ClosePrice(i)] : n \in SampleSizes}

ohlcv == <<"Open", "High", "Low", "Close", "Volume">>

\* pd.DataFrame(request.data): one row per bar, the five OHLCV columns.
FrameOf(series) ==
    DataFrame(Len(series), ohlcv,
              [c \in Range(ohlcv) |->
                  [i \in 1..Len(series) |-> Bar(series[i])[c]]])

\* pd.read_csv of "Date,Open,High,Low,Close,Volume" rows.
CsvFrameOf(series) ==
    DataFrame(Len(series), <<"Date">> \o ohlcv,
              [c \in {"Date"} \cup Range(ohlcv) |->
                  [i \in 1..Len(series) |->
                      IF c = "Date" THEN i ELSE Bar(series[i])[c]]])

\* Every frame the endpoints and the tests build from a bar series, and
\* create_features of each, evaluated once.
AllFrames ==
    {FrameOf(s) : s \in BarSeries \cup SampleSeries}
        \cup {CsvFrameOf(s) : s \in BarSeries}

FeatureMemo == [d \in AllFrames |-> create_features(d)]

\* FeatureEngineer.create_features(d) for d one of the frames above.
features_of(d) == FeatureMemo[d]

\* ----------------------------------------------------- StockPredictor
feature_names ==
    << "RSI_14", "MACD", "MACD_Signal", "MACD_Histogram",
       "BB_Upper", "BB_Middle", "BB_Lower", "Volatility",
       "HL_Ratio", "Volume_SMA_20", "Price_SMA_20" >>

required_cols == {"Open", "High", "Low", "Close", "Volume"}

\* The predict coroutines (one per call, numbered in call order).
Tasks == {1, 2}

VARIABLES
    scaler,      \* fitted preprocessor parameters, see Unfitted
    model,       \* fitted regressor parameters
    is_trained,  \* StockPredictor.is_trained
    nTrain,      \* train calls made on the pipeline so far
    task,        \* the predict coroutines
    ret,         \* outcome of the last synchronous call
    now,              \* the clock read by time.time() and datetime.now(), in seconds
    request_history,  \* RateLimiter.request_history: client -> admission times
    admitted,         \* every admission so far, <<client, time>>, in call order
    metadata,         \* ModelRegistry.metadata, in insertion order
    registry_file,    \* what registry.json holds
    registered,       \* register_model calls made so far
    metrics,          \* the MetricsCollector of api_main (request_count, error_count)
    model_instance,   \* _model_instance: 0 for None, else an instance's number
    instances,        \* the StockPredictor objects constructed, see get_model
    caller            \* the threads calling get_model

\* The state of the services around the pipeline.
services == <<now, request_history, admitted, metadata, registry_file,
              registered, metrics, model_instance, instances, caller>>

vars == <<scaler, model, is_trained, nTrain, task, ret, now, request_history,
          admitted, metadata, registry_file, registered, metrics,
          model_instance, instances, caller>>

\* The threads that call get_model, and a thread before its call.
Threads == {1, 2}

\* made: the instance the thread constructed; ref: the one get_model
\* returned to it (0: none).
IdleCaller == [pc |-> "idle", made |-> 0, ref |-> 0]

\* The clients of the rate limiter, and the entry of a client that
\* request_history does not hold yet.
Clients == {"10.0.0.1", "10.0.0.2"}

NoHistory == [present |-> FALSE, times |-> <<>>]

\* MetricsCollector.__init__ and reset_metrics (lines 12-17, 69-75).
NoMetrics == [request_count |-> 0, error_count |-> 0]

\* Fitted parameters are a function of the data of the fit: they are
\* named by the train call that computed them (0 when unfitted).
Unfitted == [fit |-> 0]
Fitted(k) == [fit |-> k]

\* self.pipeline.predict(X): the fitted scaler then the fitted regressor,
\* row by row.  The regressor's value for a row is kept symbolic: the
\* parameters applied and the feature vector.
pipeline_predict(sc, md, X) ==
    [i \in 1..X.nrows |-> [scaler |-> sc.fit, model |-> md.fit, row |-> Row(X, i)]]

\* xgb_model.feature_importances_: non-negative scores fixed by the fit.
feature_importances(md) ==
    [k \in 1..Len(feature_names) |-> (k * (md.fit + 2)) % 4]

\* sorted(items, key=score, reverse=True): stable, descending.
RECURSIVE InsertDesc(_, _)
InsertDesc(sorted, item) ==
    IF Len(sorted) = 0 THEN <<item>>
    ELSE IF sorted[Len(sorted)][2] >= item[2] THEN Append(sorted, item)
    ELSE Append(InsertDesc(SubSeq(sorted, 1, Len(sorted) - 1), item),
                sorted[Len(sorted)])

\* Variant of SortDesc that leaves the items as they come.
SortSkipped(items) == items

RECURSIVE SortDesc(_)
SortDesc(items) ==
    IF Len(items) = 0 THEN <<>>
    ELSE InsertDesc(SortDesc(SubSeq(items, 1, Len(items) - 1)),
                    items[Len(items)])

\* started, finished: the number of train calls made when the call began
\* and when it returned.
IdleTask == [pc |-> "idle", data |-> EmptyFrame, X |-> EmptyFrame,
             err |-> NoError, result |-> <<>>, started |-> 0, finished |-> 0]

\* What a caller saw of the call that last returned or raised without
\* suspending.  was_trained: is_trained when the call began; rows,
\* cols_ok, ylen_ok: the shape of its arguments (row count, all needed
\* columns present, y as long as X).
\* bars, X (train only): the table handed to pipeline.fit and the bars
\* it was built from.
NoRet == [op |-> "none", err |-> NoError, was_trained |-> FALSE,
          rows |-> 0, cols_ok |-> TRUE, ylen_ok |-> TRUE, warned |-> FALSE,
          bars |-> <<>>, X |-> EmptyFrame, http |-> 0, value |-> <<>>]

Init ==
    /\ scaler = Unfitted
    /\ model = Unfitted
    /\ is_trained = FALSE
    /\ nTrain = 0
    /\ task = [t \in Tasks |-> IdleTask]
    /\ ret = NoRet
    /\ now = 0
    /\ request_history = [c \in Clients |-> NoHistory]
    /\ admitted = [c \in Clients |-> <<>>]
    /\ metadata = <<>>
    /\ registry_file = <<>>
    /\ registered = 0
    /\ metrics = NoMetrics
    /\ model_instance = 0
    /\ instances = <<>>
    /\ caller = [t \in Threads |-> IdleCaller]

\* ------------------------------------------------------------- train
\* StockPredictor.train(X, y), y given by its row count: the outcome and
\* the model state it leaves (fitted_on: the table pipeline.fit was given).
\* Pipeline.fit fits the steps in order and in place: the preprocessor on
\* X alone (it never looks at y), then the regressor on (Xt, y), which
\* rejects a y of another length.
\*   KeyError       X[self.feature_names] with a column missing (line 234)
\*   ValueError     StandardScaler given zero rows (line 235)
\*   XGBoostError   XGBRegressor.fit given len(y) # len(X) (line 235)
\* Variant of train in which the small-sample warning is an error.
train_rejecting_small(X, ylen) ==
    IF \/ \E f \in Range(feature_names) : ~HasColumn(X, f)
       \/ X.nrows < SMALL_SAMPLE
       \/ ylen # X.nrows
    THEN [scaler |-> scaler, model |-> model, is_trained |-> is_trained,
          fitted_on |-> EmptyFrame, metrics |-> <<>>,
          err |-> Raise("ValueError", "too few samples")]
    ELSE [scaler |-> Fitted(nTrain + 1),
          model |-> Fitted(nTrain + 1),
          is_trained |-> TRUE,
          fitted_on |-> Select(X, feature_names),
          metrics |-> [samples |-> X.nrows, features |-> Len(feature_names)],
          err |-> NoError]

\* Variant of train in which a failing call also clears is_trained.
train_clearing_flag(X, ylen) ==
    IF \/ \E f \in Range(feature_names) : ~HasColumn(X, f)
       \/ X.nrows = 0
       \/ ylen # X.nrows
    THEN [scaler |-> scaler, model |-> model, is_trained |-> FALSE,
          fitted_on |-> EmptyFrame, metrics |-> <<>>,
          err |-> Raise("ValueError", "training failed")]
    ELSE [scaler |-> Fitted(nTrain + 1),
          model |-> Fitted(nTrain + 1),
          is_trained |-> TRUE,
          fitted_on |-> Select(X, feature_names),
          metrics |-> [samples |-> X.nrows, features |-> Len(feature_names)],
          err |-> NoError]

train(X, ylen) ==
    LET k == nTrain + 1
        keep == [scaler |-> scaler, model |-> model, is_trained |-> is_trained,
                 fitted_on |-> EmptyFrame, metrics |-> <<>>]
    IN
    IF \E f \in Range(feature_names) : ~HasColumn(X, f)
    THEN keep @@ [err |-> Raise("KeyError", "not in index")]
    ELSE IF X.nrows = 0
    THEN keep @@ [err |-> Raise("ValueError", "Found array with 0 sample(s)")]
    ELSE IF ylen # X.nrows
    THEN [keep EXCEPT !.scaler = Fitted(k),
                      !.fitted_on = Select(X, feature_names)]
         @@ [err |-> Raise("XGBoostError", "Invalid shape of labels")]
    ELSE [scaler |-> Fitted(k),
          model |-> Fitted(k),
          is_trained |-> TRUE,
          fitted_on |-> Select(X, feature_names),
          metrics |-> [samples |-> X.nrows, features |-> Len(feature_names)],
          err |-> NoError]

\* What the caller of train sees.
TrainRet(op, series, X, ylen, out) ==
    [NoRet EXCEPT
       !.op = op, !.err = out.err, !.was_trained = is_trained,
       !.rows = X.nrows,
       !.cols_ok = \A f \in Range(feature_names) : HasColumn(X, f),
       !.ylen_ok = (ylen = X.nrows),
       !.warned = X.nrows < SMALL_SAMPLE,
       !.bars = series,
       !.X = out.fitted_on,
       !.http = IF op # "/train" THEN 0 ELSE IF out.err = NoError THEN 200 ELSE 400,
       !.value = out.metrics]

\* The call of train and what it leaves behind, given its outcome.
TrainApply(op, series, X, ylen, out) ==
    /\ nTrain < MaxTrainCalls
    /\ scaler' = out.scaler
    /\ model' = out.model
    /\ is_trained' = out.is_trained
    /\ ret' = TrainRet(op, series, X, ylen, out)
    /\ nTrain' = nTrain + 1
    /\ UNCHANGED task
    /\ UNCHANGED services

TrainStep(op, series, X, ylen) ==
    TrainApply(op, series, X, ylen, train(X, ylen))

\* A direct call predictor.train(X, y) (tests/test_ml_pipeline.py line
\* 115): X = create_features(bars), whole, with a feature column removed
\* or with its rows sliced away; y one value per row, or one value too
\* many.
XModes == {"full", "dropcol", "norows"}
YModes == {"match", "long"}

XOf(X0, xmode) ==
    CASE xmode = "full"    -> X0
      [] xmode = "dropcol" -> DropColumn(X0, "RSI_14")
      [] xmode = "norows"  -> NoRows(X0)

YLenOf(X, ymode) == IF ymode = "match" THEN X.nrows ELSE X.nrows + 1

TrainCallOn(series, X, ymode) ==
    TrainStep("train", series, X, YLenOf(X, ymode))

TrainCall(series, xmode, ymode) ==
    TrainCallOn(series, XOf(features_of(FrameOf(series)).df, xmode), ymode)

\* POST /train (api/main.py lines 427-451).  The handler has no await:
\* it runs to completion on the event loop.  Any exception becomes 400.
Targets == {"Close", "NonExistent"}

TrainRefused(e) ==
    /\ ret' = [NoRet EXCEPT !.op = "/train", !.http = 400, !.err = e,
                            !.was_trained = is_trained]
    /\ UNCHANGED <<scaler, model, is_trained, nTrain, task>>
    /\ UNCHANGED services

TrainEndpointOn(series, target_column, df, f) ==
    IF ~HasColumn(df, target_column)
    THEN TrainRefused(Raise("ValueError", "Target column not found"))
    ELSE IF f.err # NoError
    THEN TrainRefused(f.err)
    ELSE TrainStep("/train", series, f.df, Len(f.df.val[target_column]))

TrainEndpoint(series, target_column) ==
    TrainEndpointOn(series, target_column, CsvFrameOf(series),
                    features_of(CsvFrameOf(series)))

\* ----------------------------------------------------------- predict
\* The checks of predict (lines 267-275), in the order of the code.
\* Variant of predict_check without the is_trained check.
predict_check_ungated(data) ==
    IF data.nrows = 0
    THEN Raise("ValueError", "Input data is empty")
    ELSE IF ~(required_cols \subseteq Range(data.columns))
    THEN Raise("ValueError", "Missing columns")
    ELSE NoError

\* Variant of predict_check raising one message for all three failures.
predict_check_one_message(data) ==
    IF ~is_trained \/ data.nrows = 0
          \/ ~(required_cols \subseteq Range(data.columns))
    THEN Raise("ValueError", "Invalid input")
    ELSE NoError

\* Variant of predict_check that looks at the columns first and at
\* is_trained last.
predict_check_columns_first(data) ==
    IF ~(required_cols \subseteq Range(data.columns))
    THEN Raise("ValueError", "Missing columns")
    ELSE IF data.nrows = 0
    THEN Raise("ValueError", "Input data is empty")
    ELSE IF ~is_trained
    THEN Raise("ValueError", "Model must be trained before prediction")
    ELSE NoError

predict_check(data) ==
    IF ~is_trained
    THEN Raise("ValueError", "Model must be trained before prediction")
    ELSE IF data.nrows = 0
    THEN Raise("ValueError", "Input data is empty")
    ELSE IF ~(required_cols \subseteq Range(data.columns))
    THEN Raise("ValueError", "Missing columns")
    ELSE NoError

\* _prepare_features (lines 278-281), run on the executor's thread.
\* df.iloc[1:]
DropFirstRow(df) ==
    DataFrame(Max(df.nrows - 1, 0), df.columns,
              [c \in Range(df.columns) |-> Tail(df.val[c])])

\* Variant of select_features that drops the first (warm-up) row.
select_features_dropping_warmup(f) ==
    IF f.err # NoError THEN [err |-> f.err, X |-> EmptyFrame]
    ELSE [err |-> NoError, X |-> DropFirstRow(Select(f.df, feature_names))]

select_features(f) ==
    IF f.err # NoError THEN [err |-> f.err, X |-> EmptyFrame]
    ELSE [err |-> NoError, X |-> Select(f.df, feature_names)]

\* Variant of _prepare_features with its own Price_SMA_20 derivation.
prepare_features_own_sma(data) ==
    [err |-> NoError,
     X |-> Select(SetCol(features_of(data).df, "Price_SMA_20",
                         data.val["Close"]),
                  feature_names)]

prepare_features(data) == select_features(features_of(data))

\* The bar tables handed to predict: every series, whole or with one
\* required column missing.
DroppedCols == {"Open", "Volume"}

PredictInputs ==
    {FrameOf(s) : s \in BarSeries}
        \cup {DropColumn(FrameOf(s), c) : s \in BarSeries, c \in DroppedCols}

\* predict up to its await (lines 267-284): the checks, which raise at
\* once, or the feature computation is handed to the executor and the
\* coroutine is suspended.
PredictStart(t, data) ==
    /\ task[t].pc = "idle"
    /\ \A u \in Tasks : u < t => task[u].pc # "idle"
    /\ IF predict_check(data) # NoError
       THEN /\ ret' = [NoRet EXCEPT
                         !.op = "predict", !.err = predict_check(data),
                         !.was_trained = is_trained,
                         !.rows = data.nrows,
                         !.cols_ok = required_cols \subseteq Range(data.columns)]
            /\ UNCHANGED task
       ELSE /\ task' = [task EXCEPT ![t] =
                          [@ EXCEPT !.pc = "offloaded", !.data = data,
                                    !.started = nTrain]]
            /\ UNCHANGED ret
    /\ UNCHANGED <<scaler, model, is_trained, nTrain>>
    /\ UNCHANGED services

Prepared(tk, p) == [tk EXCEPT !.pc = "ready", !.X = p.X, !.err = p.err]

\* The executor's thread runs _prepare_features; it reads only the call's
\* own data and self.feature_names.
\* Variant of PrepareFeatures that fits the scaler on the call's features.
PrepareFeaturesFitting(t) ==
    /\ task[t].pc = "offloaded"
    /\ scaler' = Fitted(0 - t)
    /\ task' = [task EXCEPT ![t] = Prepared(@, prepare_features(task[t].data))]
    /\ UNCHANGED <<model, is_trained, nTrain, ret>>
    /\ UNCHANGED services

PrepareFeatures(t) ==
    /\ task[t].pc = "offloaded"
    /\ task' = [task EXCEPT ![t] = Prepared(@, prepare_features(task[t].data))]
    /\ UNCHANGED <<scaler, model, is_trained, nTrain, ret>>
    /\ UNCHANGED services

\* predict after its await (lines 284-288): back on the event loop, the
\* pipeline as it is now makes the predictions.
\* Variant of PredictResume that refits the scaler on the call's data
\* (fit_transform in place of transform).
PredictResumeRefitting(t) ==
    /\ task[t].pc = "ready"
    /\ scaler' = Fitted(0 - t)
    /\ task' = [task EXCEPT ![t] =
                  [@ EXCEPT !.pc = "done", !.finished = nTrain,
                            !.result = pipeline_predict(scaler', model, task[t].X)]]
    /\ UNCHANGED <<model, is_trained, nTrain, ret>>
    /\ UNCHANGED services

PredictResume(t) ==
    /\ task[t].pc = "ready"
    /\ task' = [task EXCEPT ![t] =
                  IF task[t].err # NoError
                  THEN [@ EXCEPT !.pc = "failed", !.finished = nTrain]
                  ELSE [@ EXCEPT !.pc = "done", !.finished = nTrain,
                                 !.result = pipeline_predict(scaler, model, task[t].X)]]
    /\ UNCHANGED <<scaler, model, is_trained, nTrain, ret>>
    /\ UNCHANGED services

\* ----------------------------------------------------------- readers
\* get_feature_importance (lines 290-308).
get_feature_importance ==
    IF ~is_trained
    THEN [err |-> Raise("ValueError", "Model must be trained first"),
          value |-> <<>>]
    ELSE LET importances == feature_importances(model)
         IN  [err |-> NoError,
              value |-> SortDesc([k \in 1..Len(feature_names) |->
                                     <<feature_names[k], importances[k]>>])]

GetFeatureImportance ==
    /\ ret' = [NoRet EXCEPT !.op = "get_feature_importance",
                            !.was_trained = is_trained,
                            !.err = get_feature_importance.err,
                            !.value = get_feature_importance.value]
    /\ UNCHANGED <<scaler, model, is_trained, nTrain, task>>
    /\ UNCHANGED services

\* Variant of get_model_info that reports a fitted scaler as trained.
get_model_info_from_scaler ==
    [name |-> "Stock Price Predictor", type |-> "regression",
     algorithm |-> "XGBoost", n_estimators |-> 500, max_depth |-> 6,
     n_features |-> Len(feature_names), features |-> feature_names,
     is_trained |-> scaler.fit > 0]

\* get_model_info (lines 310-327).
get_model_info ==
    [name |-> "Stock Price Predictor", type |-> "regression",
     algorithm |-> "XGBoost", n_estimators |-> 500, max_depth |-> 6,
     n_features |-> Len(feature_names), features |-> feature_names,
     is_trained |-> is_trained]

GetModelInfo ==
    /\ ret' = [NoRet EXCEPT !.op = "get_model_info", !.was_trained = is_trained,
                            !.value = get_model_info]
    /\ UNCHANGED <<scaler, model, is_trained, nTrain, task>>
    /\ UNCHANGED services

\* ------------------------------------------------------ specification
\* The pipeline with every operation and one predict call at a time.
Next ==
    \/ \E s \in BarSeries \ {<<>>}, xm \in XModes, ym \in YModes :
          TrainCall(s, xm, ym)
    \/ \E s \in BarSeries, tc \in Targets : TrainEndpoint(s, tc)
    \/ \E d \in PredictInputs : PredictStart(1, d)
    \/ PrepareFeatures(1)
    \/ PredictResume(1)
    \/ GetFeatureImportance
    \/ GetModelInfo

Spec == Init /\ [][Next]_vars

\* Train calls and two predict calls, which may overlap each other and
\* the train calls.
NextPair ==
    \/ \E s \in BarSeries \ {<<>>}, xm \in XModes, ym \in YModes :
          TrainCall(s, xm, ym)
    \/ \E t \in Tasks, d \in PredictInputs : PredictStart(t, d)
    \/ \E t \in Tasks : PrepareFeatures(t)
    \/ \E t \in Tasks : PredictResume(t)

SpecPair == Init /\ [][NextPair]_vars

\* ------------------------------------------------- indicator calls
\* The price series handed to the indicators: every series of at most
\* MaxLen prices among 0, 1 and 2, so flat, rising and falling series and
\* series holding a zero price; and the periods 1..MaxPeriod.
PriceValues == {0, SCALE, 2 * SCALE}

RECURSIVE SeqsOf(_, _)
SeqsOf(S, n) ==
    IF n = 0 THEN {<<>>}
    ELSE {Append(q, x) : q \in SeqsOf(S, n - 1), x \in S}

PriceSeries == UNION {SeqsOf(PriceValues, n) : n \in 0..MaxLen}

Periods == 1..MaxPeriod

\* A degenerate bar at price p: Open = Low = Close = p, High one above.
DegenerateBar(p) ==
    [Open |-> p, High |-> p + SCALE, Low |-> p, Close |-> p, Volume |-> p]

OhlcvOf(prices) ==
    DataFrame(Len(prices), ohlcv,
              [c \in Range(ohlcv) |->
                  [i \in 1..Len(prices) |-> DegenerateBar(prices[i])[c]]])

\* What one call of a pure function, made on its own, returned or raised:
\* its arguments (bars, rows), the error, the arrays (value) or the table
\* (X) returned.
CallRet(op, prices, period, err, value, df) ==
    [NoRet EXCEPT !.op = op, !.bars = prices, !.rows = period,
                  !.err = err, !.value = value, !.X = df]

RsiCall(prices, period) ==
    /\ ret = NoRet
    /\ ret' = CallRet("rsi", prices, period, NoError,
                      rsi(prices, period), EmptyFrame)
    /\ UNCHANGED <<scaler, model, is_trained, nTrain, task>>
    /\ UNCHANGED services

\* macd with its default periods; _ema raises on the empty array.
MacdCall(prices) ==
    /\ ret = NoRet
    /\ ret' = IF emaRaises(prices)
              THEN CallRet("macd", prices, 0,
                           Raise("IndexError", "index 0 is out of bounds"),
                           <<>>, EmptyFrame)
              ELSE CallRet("macd", prices, 0, NoError,
                           macd(prices, MACD_FAST, MACD_SLOW, MACD_SIGNAL),
                           EmptyFrame)
    /\ UNCHANGED <<scaler, model, is_trained, nTrain, task>>
    /\ UNCHANGED services

BollingerCall(prices, period) ==
    /\ ret = NoRet
    /\ ret' = CallRet("bollinger_bands", prices, period, NoError,
                      bollinger_bands(prices, period, BB_STD_DEV), EmptyFrame)
    /\ UNCHANGED <<scaler, model, is_trained, nTrain, task>>
    /\ UNCHANGED services

VolatilityCall(prices, period) ==
    /\ ret = NoRet
    /\ ret' = CallRet("volatility", prices, period, NoError,
                      volatility(prices, period), EmptyFrame)
    /\ UNCHANGED <<scaler, model, is_trained, nTrain, task>>
    /\ UNCHANGED services

CreatedRet(prices, f) ==
    CallRet("create_features", prices, 0, f.err, <<>>, f.df)

CreateFeaturesCall(prices) ==
    /\ ret = NoRet
    /\ ret' = CreatedRet(prices, create_features(OhlcvOf(prices)))
    /\ UNCHANGED <<scaler, model, is_trained, nTrain, task>>
    /\ UNCHANGED services

NextInd ==
    \/ \E q \in PriceSeries, p \in Periods : RsiCall(q, p)
    \/ \E q \in PriceSeries : MacdCall(q)
    \/ \E q \in PriceSeries, p \in Periods : BollingerCall(q, p)
    \/ \E q \in PriceSeries, p \in Periods : VolatilityCall(q, p)
    \/ \E q \in PriceSeries : CreateFeaturesCall(q)

SpecInd == Init /\ [][NextInd]_vars

\* Direct train calls on samples below, at and above the size train warns
\* about, and the reads of the model's metadata.
NextSample ==
    \/ \E s \in SampleSeries, xm \in XModes, ym \in YModes :
          TrainCall(s, xm, ym)
    \/ GetFeatureImportance
    \/ GetModelInfo

SpecSample == Init /\ [][NextSample]_vars

\* ----------------------------------------------- features of prefixes
\* Two bar histories: the close prices 3, 2, 1, 3, 2, 1, ... and
\* 2, 5, 5, 2, 1, 2, 5, ...
Histories == {1, 2}

HistoryPrice(h, i) == IF h = 1 THEN ClosePrice(i) ELSE 1 + ((i * i) % 5)

HistoryFrames ==
    [h \in Histories |->
        [n \in 1..MaxHistory |-> FrameOf([i \in 1..n |-> HistoryPrice(h, i)])]]

\* create_features of the first n bars of history h, evaluated once.
HistoryMemo ==
    [h \in Histories |->
        [n \in 1..MaxHistory |-> create_features(HistoryFrames[h][n])]]

PrefixRet(h, n, k, fP, fS) ==
    [NoRet EXCEPT !.op = "create_features_prefix",
                  !.bars = HistoryFrames[h][n].val["Close"], !.rows = k,
                  !.err = IF fP.err # NoError THEN fP.err ELSE fS.err,
                  !.value = Select(fP.df, feature_names),
                  !.X = Select(fS.df, feature_names)]

\* create_features on the first n bars of a history and on their first k
\* bars, each call on its own table.
CreateFeaturesOnPrefix(h, n, k) ==
    /\ ret = NoRet
    /\ ret' = PrefixRet(h, n, k, HistoryMemo[h][k], HistoryMemo[h][n])
    /\ UNCHANGED <<scaler, model, is_trained, nTrain, task>>
    /\ UNCHANGED services

NextCausal ==
    \E h \in Histories, n \in 1..MaxHistory, k \in 1..MaxHistory :
        k <= n /\ CreateFeaturesOnPrefix(h, n, k)

SpecCausal == Init /\ [][NextCausal]_vars

\* ------------------------------------------------------- RateLimiter
\* [req_time for req_time in history if req_time > minute_ago]
Recent(times, minute_ago) == SelectSeq(times, LAMBDA req_time : req_time > minute_ago)

\* Variant of is_allowed_on that admits up to and including the limit.
is_allowed_inclusive(recent, t) ==
    IF Len(recent) > requests_per_minute
    THEN [allowed |-> FALSE, times |-> recent]
    ELSE [allowed |-> TRUE, times |-> Append(recent, t)]

\* is_allowed after the cleaning (lines 138-144): the answer and the
\* client's history it leaves.
is_allowed_on(recent, t) ==
    IF Len(recent) >= requests_per_minute
    THEN [allowed |-> FALSE, times |-> recent]
    ELSE [allowed |-> TRUE, times |-> Append(recent, t)]

\* What a call of the limiter returned: the client, the clock at the
\* call, the value.
LimiterRet(op, client_id, value) ==
    [NoRet EXCEPT !.op = op,
                  !.value = [client |-> client_id, at |-> now, result |-> value]]

IsAllowedApply(client_id, out) ==
    /\ request_history' = [request_history EXCEPT ![client_id] =
                              [present |-> TRUE, times |-> out.times]]
    /\ admitted' = IF out.allowed
                   THEN [admitted EXCEPT ![client_id] = Append(@, now)]
                   ELSE admitted
    /\ ret' = LimiterRet("is_allowed", client_id, out.allowed)

\* RateLimiter.is_allowed (lines 124-144), now = time.time().
IsAllowed(client_id) ==
    /\ IsAllowedApply(client_id,
                      is_allowed_on(Recent(request_history[client_id].times,
                                           now - WINDOW), now))
    /\ UNCHANGED <<scaler, model, is_trained, nTrain, task>>
    /\ UNCHANGED <<now, metadata, registry_file, registered, metrics,
                   model_instance, instances, caller>>

\* RateLimiter.get_remaining (lines 146-150).
get_remaining(client_id) ==
    IF ~request_history[client_id].present THEN requests_per_minute
    ELSE Max(0, requests_per_minute - Len(request_history[client_id].times))

GetRemaining(client_id) ==
    /\ ret' = LimiterRet("get_remaining", client_id, get_remaining(client_id))
    /\ UNCHANGED <<scaler, model, is_trained, nTrain, task>>
    /\ UNCHANGED services

\* Time passes between calls.
TickSteps == {20, WINDOW}

Tick(d) ==
    /\ now + d <= MaxTime
    /\ now' = now + d
    /\ UNCHANGED <<scaler, model, is_trained, nTrain, task, ret>>
    /\ UNCHANGED <<request_history, admitted, metadata, registry_file,
                   registered, metrics, model_instance, instances, caller>>

NextRate ==
    \/ \E c \in Clients : IsAllowed(c)
    \/ \E c \in Clients : GetRemaining(c)
    \/ \E d \in TickSteps : Tick(d)

SpecRate == Init /\ [][NextRate]_vars

\* ----------------------------------------------------- ModelRegistry
\* datetime.now().strftime('%Y%m%d_%H%M%S'): the clock to the second, as
\* text.
Stamp(t) == ToString(t)

\* f"{model_name}_{version}_{stamp}"
ModelId(model_name, version, t) ==
    model_name \o "_" \o version \o "_" \o Stamp(t)

\* The entry register_model stores (lines 41-50), with its key.
Entry(model_name, model_type, metric_values, version, t) ==
    [id |-> ModelId(model_name, version, t), name |-> model_name,
     type |-> model_type, version |-> version, metrics |-> metric_values,
     registered_at |-> t, status |-> "active"]

IndexOf(md, model_id) ==
    IF \E i \in 1..Len(md) : md[i].id = model_id
    THEN CHOOSE i \in 1..Len(md) : md[i].id = model_id
    ELSE 0

\* self.metadata[model_id] = entry: a new key goes last, a key already
\* there keeps its place and gets the new value.
SetEntry(md, entry, at) ==
    IF at = 0 THEN Append(md, entry) ELSE [md EXCEPT ![at] = entry]

RegistryRet(op, value) == [NoRet EXCEPT !.op = op, !.value = value]

\* The arguments of the register_model calls: names and versions as in
\* the tests, metrics with and without r2.
ModelNames == {"model1", "model2"}
Versions == {"1.0.0", "1.1.0"}
MetricValues == {[r2 |-> 85], [r2 |-> 95], [mse |-> 5]}

RegisterEntry(entry) ==
    /\ metadata' = SetEntry(metadata, entry, IndexOf(metadata, entry.id))
    /\ registry_file' = metadata'
    /\ ret' = RegistryRet("register_model", entry.id)

\* register_model (lines 36-53), _save_registry included.
RegisterModel(model_name, metric_values, version) ==
    /\ registered < MaxModels
    /\ registered' = registered + 1
    /\ RegisterEntry(Entry(model_name, "xgboost", metric_values, version, now))
    /\ UNCHANGED <<scaler, model, is_trained, nTrain, task>>
    /\ UNCHANGED <<now, request_history, admitted, metrics, model_instance,
                   instances, caller>>

\* list_models() (lines 59-68): every entry, latest registration first.
list_models ==
    [i \in 1..Len(metadata) |->
        SortDesc([k \in 1..Len(metadata) |->
                     <<metadata[k], metadata[k].registered_at>>])[i][1]]

ListModels ==
    /\ ret' = RegistryRet("list_models", list_models)
    /\ UNCHANGED <<scaler, model, is_trained, nTrain, task>>
    /\ UNCHANGED services

\* metadata['metrics'].get(metric, -float('inf'))
ScoreFor(entry, metric) ==
    IF metric \in DOMAIN entry.metrics THEN entry.metrics[metric] ELSE -Inf

\* Variant of BestLoop that looks at every entry, whatever its status.
RECURSIVE BestLoopAnyStatus(_, _, _, _, _)
BestLoopAnyStatus(md, metric, i, best, best_score) ==
    IF i > Len(md) THEN best
    ELSE IF ScoreFor(md[i], metric) > best_score
    THEN BestLoopAnyStatus(md, metric, i + 1, <<md[i]>>, ScoreFor(md[i], metric))
    ELSE BestLoopAnyStatus(md, metric, i + 1, best, best_score)

\* The loop of get_best_model (lines 75-80); best is <<>> for None.
RECURSIVE BestLoop(_, _, _, _, _)
BestLoop(md, metric, i, best, best_score) ==
    IF i > Len(md) THEN best
    ELSE IF md[i].status = "active" /\ ScoreFor(md[i], metric) > best_score
    THEN BestLoop(md, metric, i + 1, <<md[i]>>, ScoreFor(md[i], metric))
    ELSE BestLoop(md, metric, i + 1, best, best_score)

\* get_best_model(metric): <<entry>>, or <<>> for {}.
get_best_model(metric) == BestLoop(metadata, metric, 1, <<>>, -Inf)

MetricNames == {"r2", "mse"}

GetBestModel(metric) ==
    /\ ret' = [RegistryRet("get_best_model", get_best_model(metric))
                  EXCEPT !.bars = <<metric>>]
    /\ UNCHANGED <<scaler, model, is_trained, nTrain, task>>
    /\ UNCHANGED services

Statuses == {"active", "archived"}

\* update_model_status (lines 84-91) on an id of the registry (found is
\* its place) or on another id (found = 0).
UpdateModelStatus(found, status) ==
    /\ found <= Len(metadata)
    /\ metadata' = IF found = 0 THEN metadata
                   ELSE [metadata EXCEPT ![found].status = status]
    /\ registry_file' = IF found = 0 THEN registry_file ELSE metadata'
    /\ ret' = RegistryRet("update_model_status", found # 0)
    /\ UNCHANGED <<scaler, model, is_trained, nTrain, task>>
    /\ UNCHANGED <<now, request_history, admitted, registered, metrics,
                   model_instance, instances, caller>>

\* get_registry_stats (lines 111-118).
get_registry_stats ==
    [total_models |-> Len(metadata),
     active_models |->
         Cardinality({i \in 1..Len(metadata) : metadata[i].status = "active"}),
     model_types |-> {metadata[i].type : i \in 1..Len(metadata)}]

GetRegistryStats ==
    /\ ret' = RegistryRet("get_registry_stats", get_registry_stats)
    /\ UNCHANGED <<scaler, model, is_trained, nTrain, task>>
    /\ UNCHANGED services

NextRegistry ==
    \/ \E n \in ModelNames, m \in MetricValues, v \in Versions :
          RegisterModel(n, m, v)
    \/ \E i \in 0..MaxModels, st \in Statuses : UpdateModelStatus(i, st)
    \/ \E m \in MetricNames : GetBestModel(m)
    \/ ListModels
    \/ GetRegistryStats
    \/ Tick(WINDOW)

SpecRegistry == Init /\ [][NextRegistry]_vars

\* ---------------------------------------------------------- get_model
\* get_model (lines 334-339) run by a thread, one step per access to the
\* global: the test of line 337, the constructor call and the assignment
\* of line 338, the read of line 339.  A thread may be switched out
\* between any two of them.
GetModelTest(t) ==
    /\ caller[t].pc \in {"idle", "returned"}
    /\ caller' = [caller EXCEPT ![t].pc =
                     IF model_instance = 0 THEN "construct" ELSE "return"]
    /\ UNCHANGED <<scaler, model, is_trained, nTrain, task, ret>>
    /\ UNCHANGED <<now, request_history, admitted, metadata, registry_file,
                   registered, metrics, model_instance, instances>>

\* StockPredictor(): a new, untrained pipeline.
GetModelConstruct(t) ==
    /\ caller[t].pc = "construct"
    /\ instances' = Append(instances, [is_trained |-> FALSE])
    /\ caller' = [caller EXCEPT ![t].pc = "assign", ![t].made = Len(instances')]
    /\ UNCHANGED <<scaler, model, is_trained, nTrain, task, ret>>
    /\ UNCHANGED <<now, request_history, admitted, metadata, registry_file,
                   registered, metrics, model_instance>>

GetModelAssign(t) ==
    /\ caller[t].pc = "assign"
    /\ model_instance' = caller[t].made
    /\ caller' = [caller EXCEPT ![t].pc = "return"]
    /\ UNCHANGED <<scaler, model, is_trained, nTrain, task, ret>>
    /\ UNCHANGED <<now, request_history, admitted, metadata, registry_file,
                   registered, metrics, instances>>

GetModelReturn(t) ==
    /\ caller[t].pc = "return"
    /\ caller' = [caller EXCEPT ![t].pc = "returned", ![t].ref = model_instance]
    /\ UNCHANGED <<scaler, model, is_trained, nTrain, task, ret>>
    /\ UNCHANGED <<now, request_history, admitted, metadata, registry_file,
                   registered, metrics, model_instance, instances>>

\* A successful train through the reference a thread holds (line 236).
TrainThrough(t) ==
    /\ caller[t].pc = "returned"
    /\ instances' = [instances EXCEPT ![caller[t].ref].is_trained = TRUE]
    /\ UNCHANGED <<scaler, model, is_trained, nTrain, task, ret>>
    /\ UNCHANGED <<now, request_history, admitted, metadata, registry_file,
                   registered, metrics, model_instance, caller>>

NextSingleton ==
    \/ \E t \in Threads : GetModelTest(t)
    \/ \E t \in Threads : GetModelConstruct(t)
    \/ \E t \in Threads : GetModelAssign(t)
    \/ \E t \in Threads : GetModelReturn(t)
    \/ \E t \in Threads : TrainThrough(t)

SpecSingleton == Init /\ [][NextSingleton]_vars

\* ------------------------------------------- authentication and roles
\* Python's None, and dict.get.
None == "None"

Get(d, key) == IF key \in DOMAIN d THEN d[key] ELSE None

\* RoleBasedAccess.ROLES.
ROLES == [admin       |-> {"read", "write", "delete"},
          user        |-> {"read"},
          contributor |-> {"read", "write"}]

\* The role names handed to check_role: the three roles and a name that
\* is not a role.
RoleNames == {"admin", "user", "contributor", "guest"}

\* check_role (lines 80-82): some scope of the required role is a scope
\* of the user's role.
\* ROLES.get(role, []).
ScopesOf(role) == IF role \in DOMAIN ROLES THEN ROLES[role] ELSE {}

check_role(required_role, user_role) ==
    \E scope \in ScopesOf(required_role) : scope \in ScopesOf(user_role)

\* A bearer token: whether jwt.decode accepts it (signature, expiry) and
\* the claims of its payload (None: the claim is absent).
Tokens ==
    [valid : BOOLEAN, sub : {"demo", None},
     role : {"admin", "user", "contributor", None}]

\* TokenManager.verify_token: the payload, or None (decoded is false) on a
\* JWTError.
verify_token(token) ==
    IF token.valid
    THEN [decoded |-> TRUE, sub |-> token.sub, role |-> token.role]
    ELSE [decoded |-> FALSE, sub |-> None, role |-> None]

\* get_current_user: [status, detail, user]; the user it returns has the
\* keys user_id and scopes only.
get_current_user(token) ==
    IF ~verify_token(token).decoded
    THEN [status |-> 401, detail |-> "Invalid or expired token", user |-> <<>>]
    ELSE IF verify_token(token).sub = None
    THEN [status |-> 401, detail |-> "Token missing user information",
          user |-> <<>>]
    ELSE [status |-> 200, detail |-> "",
          user |-> [user_id |-> verify_token(token).sub, scopes |-> <<>>]]

\* What a request carrying a token got: the status, the error detail, and
\* in value the token and the name of the handler.
Answer(op, token, status, detail) ==
    [NoRet EXCEPT !.op = op, !.http = status,
                  !.err = IF status = 200 THEN NoError
                          ELSE Raise("HTTPException", detail),
                  !.value = token]

\* An admin endpoint given the outcome of its get_current_user dependency
\* (lines 176-197): 401 from the dependency, 403 unless the user's role
\* is admin, else the handler's work.
AdminAnswer(op, token, cu, detail) ==
    IF cu.status # 200 THEN Answer(op, token, cu.status, cu.detail)
    ELSE IF Get(cu.user, "role") # "admin" THEN Answer(op, token, 403, detail)
    ELSE Answer(op, token, 200, "")

\* POST /admin/reset-metrics.
ResetMetrics(token) ==
    /\ ret' = AdminAnswer("/admin/reset-metrics", token,
                          get_current_user(token),
                          "Only admins can reset metrics")
    /\ metrics' = IF ret'.http = 200 THEN NoMetrics ELSE metrics
    /\ UNCHANGED <<scaler, model, is_trained, nTrain, task>>
    /\ UNCHANGED <<now, request_history, admitted, metadata, registry_file,
                   registered, model_instance, instances, caller>>

\* GET /admin/health-check.
AdminHealthCheck(token) ==
    /\ ret' = AdminAnswer("/admin/health-check", token,
                          get_current_user(token),
                          "Only admins can access this endpoint")
    /\ UNCHANGED <<scaler, model, is_trained, nTrain, task>>
    /\ UNCHANGED services

\* RoleBasedAccess.require_role (lines 85-95) given the outcome of
\* get_current_user.
RequireRoleAnswer(required_role, token, cu) ==
    IF cu.status # 200 THEN Answer("require_role", token, cu.status, cu.detail)
    ELSE IF Get(cu.user, "role") = None
            \/ ~check_role(required_role, Get(cu.user, "role"))
    THEN Answer("require_role", token, 403, "Insufficient permissions")
    ELSE Answer("require_role", token, 200, "")

RequireRole(required_role, token) ==
    /\ ret' = RequireRoleAnswer(required_role, token, get_current_user(token))
    /\ UNCHANGED <<scaler, model, is_trained, nTrain, task>>
    /\ UNCHANGED services

CheckRoleCall(required_role, user_role) ==
    /\ ret' = [NoRet EXCEPT !.op = "check_role",
                            !.value = [required_role |-> required_role,
                                       user_role |-> user_role,
                                       result |-> check_role(required_role,
                                                             user_role)]]
    /\ UNCHANGED <<scaler, model, is_trained, nTrain, task>>
    /\ UNCHANGED services

\* MetricsCollector.record_request (lines 19-25).
RecordRequest(status_code) ==
    /\ metrics.request_count < MaxRequests
    /\ metrics' = [request_count |-> metrics.request_count + 1,
                   error_count |-> metrics.error_count
                                      + (IF status_code >= 400 THEN 1 ELSE 0)]
    /\ UNCHANGED <<scaler, model, is_trained, nTrain, task, ret>>
    /\ UNCHANGED <<now, request_history, admitted, metadata, registry_file,
                   registered, model_instance, instances, caller>>

StatusCodes == {200, 401, 403, 500}

NextAuth ==
    \/ \E tk \in Tokens : ResetMetrics(tk)
    \/ \E tk \in Tokens : AdminHealthCheck(tk)
    \/ \E r \in RoleNames, tk \in Tokens : RequireRole(r, tk)
    \/ \E r \in RoleNames, u \in RoleNames : CheckRoleCall(r, u)
    \/ \E sc \in StatusCodes : RecordRequest(sc)

SpecAuth == Init /\ [][NextAuth]_vars

\* ------------------------------------------------------------ claims
\* C1: a train call that raises leaves scaler, regressor and is_trained
\* as they were before the call; one that returns leaves scaler and
\* regressor both from its own fit and is_trained true.
C1_TrainAtomic ==
    [][nTrain' = nTrain + 1 =>
          IF ret'.err # NoError
          THEN UNCHANGED <<scaler, model, is_trained>>
          ELSE scaler'.fit = nTrain' /\ model'.fit = nTrain' /\ is_trained']_vars

\* C2: every prediction a predict call returns was computed with scaler
\* parameters and regressor parameters of the same train call.
C2_SameFit ==
    \A t \in Tasks :
        task[t].pc = "done" =>
            \A i \in 1..Len(task[t].result) :
                task[t].result[i].scaler = task[t].result[i].model

\* C3: no train call runs while a predict call is between its start and
\* its return.
C3_TrainExcludesPredict ==
    [][nTrain' = nTrain + 1 =>
          \A t \in Tasks : task[t].pc \notin {"offloaded", "ready"}]_vars

\* C4: while no train call has completed successfully, predict and
\* get_feature_importance raise the not-trained error and give no result;
\* once one has, get_feature_importance returns the 11 scores, predict
\* raises only for an empty or schema-invalid table, and an admitted
\* predict call returns predictions.
NotTrainedMessages ==
    {"Model must be trained before prediction", "Model must be trained first"}

PredictRaised == ret' # ret /\ ret'.op = "predict"

ImportanceCalled == ret' # ret /\ ret'.op = "get_feature_importance"

PredictAdmitted ==
    \E t \in Tasks : task[t].pc = "idle" /\ task'[t].pc = "offloaded"

C4_StateGating ==
    [][IF model.fit = 0
       THEN /\ ~PredictAdmitted
            /\ PredictRaised \/ ImportanceCalled =>
                   /\ ret'.err.type = "ValueError"
                   /\ ret'.err.msg \in NotTrainedMessages
                   /\ ret'.value = <<>>
       ELSE /\ PredictRaised => ret'.rows = 0 \/ ~ret'.cols_ok
            /\ ImportanceCalled =>
                   ret'.err = NoError /\ Len(ret'.value) = Len(feature_names)
            /\ \A t \in Tasks :
                   task[t].pc = "ready" /\ task'[t].pc # "ready" =>
                       task'[t].pc = "done" /\ Len(task'[t].result) > 0]_vars

C4_GatedAfterFailedTrain ==
    /\ model.fit = 0
    /\ scaler.fit > 0
    /\ ret.op = "predict"
    /\ ret.err.msg = "Model must be trained before prediction"

\* C5: is_trained starts false, turns true only in a train call, and once
\* true stays true.
C5_TrainedMonotone ==
    /\ ~is_trained
    /\ [][/\ is_trained => is_trained'
          /\ ~is_trained /\ is_trained' => nTrain' = nTrain + 1]_vars

C5_FailedTrainWhenTrained ==
    /\ is_trained
    /\ ret.op = "train"
    /\ ret.was_trained
    /\ ret.err # NoError

\* C6: the three failures of predict are told apart by their messages;
\* all three are raised as ValueError.
Cause(r) ==
    IF ~r.was_trained THEN "not_trained"
    ELSE IF r.rows = 0 THEN "empty"
    ELSE IF ~r.cols_ok THEN "schema"
    ELSE "none"

MessageOf(cause) ==
    CASE cause = "not_trained" -> "Model must be trained before prediction"
      [] cause = "empty"       -> "Input data is empty"
      [] cause = "schema"      -> "Missing columns"
      [] OTHER                 -> ""

C6_ValueErrorByMessage ==
    ret.op = "predict" =>
        /\ Cause(ret) # "none"
        /\ ret.err.type = "ValueError"
        /\ ret.err.msg = MessageOf(Cause(ret))

C6_SchemaFailure ==
    ret.op = "predict" /\ Cause(ret) = "schema" /\ ret.rows >= 2

\* C6 as stated: predict failures of different causes are raised as
\* different error kinds.
C6_KindsDistinct ==
    [][ret.op = "predict" /\ ret'.op = "predict" /\ Cause(ret) # Cause(ret')
          => ret.err.type # ret'.err.type]_vars

\* C7: train given a y of another length than X, or an X without one of
\* the feature columns, raises one kind of error, a ValueError.
ValueErrorKinds == {"ValueError", "XGBoostError"}

C7_InvalidInputKind ==
    ret.op \in {"train", "/train"} /\ (~ret.cols_ok \/ ~ret.ylen_ok)
        => ret.err.type \in ValueErrorKinds

\* C8: a predict call admitted on a trained pipeline returns one
\* prediction per input row, the i-th for the feature vector of row i.
C8_OnePerRow ==
    \A t \in Tasks :
        /\ task[t].pc # "failed"
        /\ task[t].pc = "done" =>
               /\ Len(task[t].result) = task[t].data.nrows
               /\ \A i \in 1..task[t].data.nrows :
                      task[t].result[i].row = Row(task[t].X, i)

C8_TwoRowsPredicted ==
    \E t \in Tasks :
        task[t].pc = "done" /\ task[t].data.nrows >= 2 /\ Len(task[t].result) >= 2

\* C9: two predict calls on the same bars, with no train call between the
\* start of the earlier and the return of the later, return the same
\* predictions.
Quiet(a, b) ==
    /\ task[a].started = task[a].finished
    /\ task[a].finished = task[b].started
    /\ task[b].started = task[b].finished

C9_IdempotentRead ==
    \A a \in Tasks, b \in Tasks :
        /\ task[a].pc = "done"
        /\ task[b].pc = "done"
        /\ task[a].data = task[b].data
        /\ Quiet(a, b)
        => task[a].result = task[b].result

C9_TwoQuietCalls ==
    /\ task[1].pc = "done"
    /\ task[2].pc = "done"
    /\ task[1].data = task[2].data
    /\ Quiet(1, 2)
    /\ Len(task[1].result) >= 2

\* C10: the table predict hands to the regressor is create_features(bars)
\* restricted to feature_names, and on the bars of the last fit it is the
\* table that fit was given.
C10_TrainServeParity ==
    \A t \in Tasks :
        task[t].pc \in {"ready", "done"} =>
            /\ task[t].X = Select(create_features(task[t].data).df, feature_names)
            /\ task[t].X.columns = feature_names
            /\ (/\ ret.op \in {"train", "/train"}
                /\ ret.X # EmptyFrame
                /\ task[t].data = FrameOf(ret.bars))
               => task[t].X = ret.X

C10_PredictOnTrainingBars ==
    \E t \in Tasks :
        /\ task[t].pc = "done"
        /\ ret.op = "/train"
        /\ ret.err = NoError
        /\ Len(ret.bars) >= 2
        /\ task[t].data = FrameOf(ret.bars)

\* C11 as stated: a train call with fewer than 50 rows (all feature
\* columns present, one target per row) warns, completes the fit and
\* leaves the pipeline trained; with 50 rows or more it does not warn.
C11_SmallSampleTrains ==
    ret.op = "train" /\ ret.cols_ok /\ ret.ylen_ok =>
        /\ ret.warned <=> ret.rows < SMALL_SAMPLE
        /\ ret.rows < SMALL_SAMPLE => ret.err = NoError /\ is_trained

\* C11: a train call warns exactly when X has fewer than 50 rows; with
\* 1 to 49 rows (all feature columns present, one target per row) it
\* still completes the fit and leaves the pipeline trained; with no rows
\* it warns and then raises ValueError.
C11_SmallNonEmptySampleTrains ==
    ret.op = "train" =>
        /\ ret.warned <=> ret.rows < SMALL_SAMPLE
        /\ ret.cols_ok /\ ret.ylen_ok /\ ret.rows >= 1 =>
               /\ ret.err = NoError
               /\ is_trained
               /\ ret.X.nrows = ret.rows
        /\ ret.cols_ok /\ ret.rows = 0 => ret.err.type = "ValueError"

C11_WarnedAndTrained ==
    /\ ret.op = "train"
    /\ ret.rows = SMALL_SAMPLE - 1
    /\ ret.warned
    /\ ret.err = NoError
    /\ is_trained
    /\ ~ret.was_trained

\* C12: get_model_info returns, trained or not, and the is_trained it
\* reports is the pipeline's is_trained at the call.
C12_ModelInfoAlways ==
    [][ret' # ret /\ ret'.op = "get_model_info" =>
          /\ ret'.err = NoError
          /\ ret'.value.is_trained = is_trained
          /\ ret'.value.n_features = Len(feature_names)
          /\ UNCHANGED <<scaler, model, is_trained>>]_vars

C12_InfoWhileUntrained ==
    /\ ret.op = "get_model_info"
    /\ ret.err = NoError
    /\ ~is_trained
    /\ scaler.fit > 0

\* C13: every element of rsi(prices, period) lies in 0..100, for every
\* series (flat, rising, falling, shorter than the period) and period.
C13_RsiBounded ==
    ret.op = "rsi" =>
        \A i \in 1..Len(ret.value) :
            ret.value[i] >= 0 /\ ret.value[i] <= 100 * SCALE

C13_RsiAtBothEnds ==
    /\ ret.op = "rsi"
    /\ Len(ret.bars) > ret.rows
    /\ \E i \in 1..Len(ret.value) : ret.value[i] = 0
    /\ \E i \in 1..Len(ret.value) : ret.value[i] > 99 * SCALE

\* C14: rsi returns exactly 50 at every index below min(period, n).
C14_RsiNeutralPrefix ==
    ret.op = "rsi" =>
        \A i \in 1..Min(ret.rows, Len(ret.bars)) :
            i <= Len(ret.value) /\ ret.value[i] = RSI_NEUTRAL * SCALE

C14_PrefixThenValues ==
    /\ ret.op = "rsi"
    /\ ret.rows >= 2
    /\ Len(ret.bars) > ret.rows
    /\ ret.value[ret.rows + 1] # RSI_NEUTRAL * SCALE

\* C15: rsi, macd, bollinger_bands and volatility return, for a series of
\* any length n >= 0, arrays of length n, and never raise.
IndicatorOps == {"rsi", "macd", "bollinger_bands", "volatility"}

Arrays(r) == IF r.op \in {"rsi", "volatility"} THEN <<r.value>> ELSE r.value

C15_LengthPreserved ==
    ret.op \in IndicatorOps =>
        /\ ret.err = NoError
        /\ Len(Arrays(ret)) = (IF ret.op \in {"rsi", "volatility"} THEN 1 ELSE 3)
        /\ \A k \in 1..Len(Arrays(ret)) : Len(Arrays(ret)[k]) = Len(ret.bars)

\* C16: at every index, also before the period, the upper band is at
\* least the middle band and the middle band at least the lower band.
C16_BollingerOrdered ==
    ret.op = "bollinger_bands" =>
        \A i \in 1..Len(ret.bars) :
            /\ ret.value[1][i] >= ret.value[2][i]
            /\ ret.value[2][i] >= ret.value[3][i]

C16_StrictBeforePeriod ==
    /\ ret.op = "bollinger_bands"
    /\ \E i \in 1..Len(ret.bars) :
           /\ i < ret.rows
           /\ ret.value[1][i] > ret.value[2][i]
           /\ ret.value[2][i] > ret.value[3][i]

\* x >= y on doubles: false when either is NaN.
Geq(x, y) == x # NaN /\ y # NaN /\ x >= y

\* C17: every element of volatility(prices, period) is >= 0.
C17_VolatilityNonNegative ==
    ret.op = "volatility" =>
        \A i \in 1..Len(ret.value) : Geq(ret.value[i], 0)

\* C18: on a non-empty series, zero prices included, no indicator and no
\* feature column raises or holds NaN or an infinity.
AllFinite(a) == \A i \in 1..Len(a) : IsFinite(a[i])

C18_NumericSafety ==
    Len(ret.bars) > 0 =>
        /\ ret.op \in IndicatorOps =>
               /\ ret.err = NoError
               /\ \A k \in 1..Len(Arrays(ret)) : AllFinite(Arrays(ret)[k])
        /\ ret.op = "create_features" =>
               /\ ret.err = NoError
               /\ \A c \in Range(feature_names) : AllFinite(ret.X.val[c])

\* C19: create_features returns, for a series of any length, one row per
\* bar in the order of the bars, with the 11 feature columns in the
\* order of feature_names after the columns of the input.
C19_OneRowPerBar ==
    ret.op = "create_features" =>
        /\ ret.err = NoError
        /\ ret.X.nrows = Len(ret.bars)
        /\ ret.X.columns = ohlcv \o feature_names
        /\ \A c \in Range(ret.X.columns) : Len(ret.X.val[c]) = Len(ret.bars)
        /\ ret.X.val["Close"] = ret.bars

\* C20: on a trained pipeline get_feature_importance returns the 11
\* feature names, each once, each with the importance of the regressor
\* input at its position in feature_names, all scores >= 0, in
\* non-increasing order of score.
ScoreOf(name) ==
    feature_importances(model)[CHOOSE k \in 1..Len(feature_names) :
                                   feature_names[k] = name]

C20_ImportanceSorted ==
    ret.op = "get_feature_importance" /\ ret.was_trained =>
        /\ ret.err = NoError
        /\ Len(ret.value) = Len(feature_names)
        /\ {ret.value[i][1] : i \in 1..Len(ret.value)} = Range(feature_names)
        /\ \A i \in 1..Len(ret.value) :
               /\ ret.value[i][2] = ScoreOf(ret.value[i][1])
               /\ ret.value[i][2] >= 0
        /\ \A i \in 1..Len(ret.value) - 1 :
               ret.value[i][2] >= ret.value[i + 1][2]

C20_ReorderedByScore ==
    /\ ret.op = "get_feature_importance"
    /\ ret.err = NoError
    /\ \E i \in 1..Len(ret.value) : ret.value[i][1] # feature_names[i]
    /\ ret.value[1][2] > ret.value[Len(ret.value)][2]

\* C26: a step of predict (its checks, its feature computation, its
\* prediction), of get_feature_importance or of get_model_info leaves the
\* scaler's parameters, the regressor's parameters and is_trained as they
\* were, whether the call returns or raises.  feature_names is assigned
\* in the constructor only.
ReaderStep ==
    \/ task' # task
    \/ /\ ret' # ret
       /\ ret'.op \in {"predict", "get_feature_importance", "get_model_info"}

C26_ReadersOnlyRead ==
    [][ReaderStep => UNCHANGED <<scaler, model, is_trained>>]_vars

C26_RaisedThenReturned ==
    /\ ret.op = "predict"
    /\ ret.err # NoError
    /\ \E t \in Tasks : task[t].pc = "done"
    /\ is_trained

\* C28: a predict call on an untrained pipeline raises the not-trained
\* error whatever its table is; on a trained pipeline an empty table
\* raises the empty-input error whatever its columns are; a call that
\* raises offloads nothing, and a call that offloads passed all three
\* checks.
C28_CheckPrecedence ==
    [][/\ ret' # ret /\ ret'.op = "predict" =>
              /\ ret'.err.type = "ValueError"
              /\ ~ret'.was_trained =>
                     ret'.err.msg = "Model must be trained before prediction"
              /\ ret'.was_trained /\ ret'.rows = 0 =>
                     ret'.err.msg = "Input data is empty"
              /\ ret'.was_trained /\ ret'.rows > 0 =>
                     ~ret'.cols_ok /\ ret'.err.msg = "Missing columns"
              /\ task' = task
       /\ \A t \in Tasks :
              task[t].pc = "idle" /\ task'[t].pc # "idle" =>
                  /\ task'[t].pc = "offloaded"
                  /\ is_trained
                  /\ task'[t].data.nrows > 0
                  /\ required_cols \subseteq Range(task'[t].data.columns)
                  /\ ret' = ret]_vars

C28_AllThreeFail ==
    /\ ret.op = "predict"
    /\ ~ret.was_trained
    /\ ret.rows = 0
    /\ ~ret.cols_ok
    /\ \A t \in Tasks : task[t].pc = "idle"

\* C29: create_features of the first k >= 1 bars of a series equals, on
\* all 11 feature columns, the first k rows of create_features of the
\* series.
C29_FeaturesCausal ==
    ret.op = "create_features_prefix" =>
        /\ ret.err = NoError
        /\ ret.value.nrows = ret.rows
        /\ ret.X.nrows = Len(ret.bars)
        /\ \A k \in 1..Len(feature_names), i \in 1..ret.rows :
               ret.value.val[feature_names[k]][i] = ret.X.val[feature_names[k]][i]

\* A prefix past every warm-up, of a longer series: its last row holds a
\* computed RSI and a computed volatility.
C29_PrefixPastWarmUp ==
    /\ ret.op = "create_features_prefix"
    /\ ret.rows > VOL_PERIOD
    /\ Len(ret.bars) > ret.rows
    /\ ret.value.val["RSI_14"][ret.rows] # RSI_NEUTRAL * SCALE
    /\ ret.value.val["Volatility"][ret.rows] # VOL_FALLBACK
    /\ ret.value.val["MACD"][ret.rows] # 0

\* C25: an admin endpoint answers 200 exactly when the authenticated token
\* carries the role admin, and 403 for an authenticated token of any other
\* role.
AdminEndpoints == {"/admin/reset-metrics", "/admin/health-check"}

Authenticated(token) == token.valid /\ token.sub # None

C25_AdminOnly ==
    ret.op \in AdminEndpoints /\ Authenticated(ret.value) =>
        /\ ret.value.role = "admin" => ret.http = 200
        /\ ret.value.role # "admin" => ret.http = 403

\* C30: check_role returns True only if every scope of the required role
\* is a scope of the user's role.
C30_ScopesIncluded ==
    ret.op = "check_role" /\ ret.value.result =>
        ScopesOf(ret.value.required_role) \subseteq ScopesOf(ret.value.user_role)

\* C21: is_allowed(client) is True exactly when fewer than
\* requests_per_minute calls of the client were admitted in the 60 seconds
\* before the call; a denied call admits nothing and leaves the client's
\* count as it was; and every window of 60 seconds (t - 60, t] holds at
\* most requests_per_minute admissions of a client.
AdmittedWithin(log, t) ==
    Cardinality({i \in 1..Len(log) : log[i] > t - WINDOW /\ log[i] <= t})

IsAllowedStep ==
    /\ ret'.op = "is_allowed"
    /\ ret' # ret \/ admitted' # admitted \/ request_history' # request_history

AllowedAsCounted(c) ==
    /\ ret'.value.result <=> AdmittedWithin(admitted[c], now) < requests_per_minute
    /\ ret'.value.result => admitted'[c] = Append(admitted[c], now)
    /\ ~ret'.value.result =>
           /\ admitted' = admitted
           /\ Len(request_history'[c].times) = AdmittedWithin(admitted[c], now)
    /\ \A o \in Clients \ {c} :
           admitted'[o] = admitted[o] /\ request_history'[o] = request_history[o]

C21_SlidingWindow ==
    /\ [](\A c \in Clients, t \in 0..MaxTime :
              AdmittedWithin(admitted[c], t) <= requests_per_minute)
    /\ [][IsAllowedStep => AllowedAsCounted(ret'.value.client)]_vars

\* A client denied at its limit and admitted again once the window moved on.
C21_DeniedThenAdmitted ==
    /\ ret.op = "is_allowed"
    /\ ret.value.result
    /\ Len(admitted[ret.value.client]) > requests_per_minute
    /\ AdmittedWithin(admitted[ret.value.client], now) = requests_per_minute

\* C22: get_remaining(client) is requests_per_minute minus the number of
\* the client's admissions in the 60 seconds before the call.
C22_RemainingIsQuota ==
    ret.op = "get_remaining" =>
        ret.value.result =
            requests_per_minute
                - AdmittedWithin(admitted[ret.value.client], ret.value.at)

\* C23: after k register_model calls on a registry that started empty,
\* the registry holds k entries: list_models() returns k entries and
\* get_registry_stats() reports total_models = k.
C23_OneEntryPerCall ==
    /\ Len(metadata) = registered
    /\ ret.op = "list_models" => Len(ret.value) = registered
    /\ ret.op = "get_registry_stats" => ret.value.total_models = registered

\* C24: get_best_model(metric) returns an active entry holding the metric
\* whose score no active entry exceeds, and {} exactly when no active
\* entry holds the metric.
ActiveWith(metric) ==
    {i \in 1..Len(metadata) :
        metadata[i].status = "active" /\ metric \in DOMAIN metadata[i].metrics}

BestOf(found, metric) ==
    IF ActiveWith(metric) = {} THEN found = <<>>
    ELSE /\ Len(found) = 1
         /\ \E i \in ActiveWith(metric) : metadata[i] = found[1]
         /\ \A i \in ActiveWith(metric) :
                found[1].metrics[metric] >= metadata[i].metrics[metric]

C24_BestActive ==
    ret.op = "get_best_model" => BestOf(ret.value, ret.bars[1])

\* The entry of the highest score was archived: the best is another one.
C24_BestSkipsArchived ==
    /\ ret.op = "get_best_model"
    /\ Len(ret.value) = 1
    /\ \E i \in 1..Len(metadata) :
           /\ metadata[i].status # "active"
           /\ ret.bars[1] \in DOMAIN metadata[i].metrics
           /\ metadata[i].metrics[ret.bars[1]] > ret.value[1].metrics[ret.bars[1]]

\* C27: at most one StockPredictor is ever constructed, every get_model
\* call returns it, and a train through one reference shows through
\* every other reference.
C27_OneInstance ==
    /\ Len(instances) <= 1
    /\ \A t \in Threads, u \in Threads :
           caller[t].ref # 0 /\ caller[u].ref # 0 =>
               /\ caller[t].ref = caller[u].ref
               /\ instances[caller[t].ref].is_trained
                      = instances[caller[u].ref].is_trained

=============================================================================
